---------------------------- MODULE Spec2Model ----------------------------
(* A model of logo_extractor.py: the image validator, the HTML candidate     *)
(* scanner, the logo fetcher, the per-site processor and the batch runner    *)
(* with its bounded thread pool.                                             *)
(*                                                                           *)
(* Strings are sequences of tokens.  Every string operation the program      *)
(* performs (startswith, endswith, "x in s", split, lower, urlparse) acts on *)
(* token boundaries of the strings drawn here.                               *)
EXTENDS Integers, Sequences, FiniteSets, TLC

VARIABLES
    \* ---- is_likely_logo called on its own
    image, min_size, max_size, verdict,
    \* ---- find_logo_urls called on its own
    page, scanned,
    \* ---- download_logo called on its own
    dl_url, dl_domain, dl_resp, dl_ret,
    \* ---- process_website called on its own
    site, site_env, site_ret,
    \* ---- extract_logos_from_parquet: main thread, pool and the site tasks
    websites, max_workers, mainpc, queue, num_threads, worker,
    pc, exc, runs, writes, collected,
    \* ---- the files of the output folder
    disk

validatorVars == <<image, min_size, max_size, verdict>>
scanVars      == <<page, scanned>>
downloadVars  == <<dl_url, dl_domain, dl_resp, dl_ret>>
siteVars      == <<site, site_env, site_ret>>
batchVars     == <<websites, max_workers, mainpc, queue, num_threads,
                   worker, pc, exc, runs, writes, collected>>
vars == <<validatorVars, scanVars, downloadVars, siteVars, batchVars, disk>>

None == "None"

\* download_logo's "return None"
NoFile == [dir |-> None, name |-> <<>>]

-----------------------------------------------------------------------------
(* Token strings                                                             *)

\* str.lower() on one token
LowerTok(t) ==
    CASE t = ".PNG"   -> ".png"
      [] t = ".JPEG"  -> ".jpeg"
      [] t = "PNG"    -> "png"
      [] t = "IMAGE/" -> "image/"
      [] t = "LOGO"   -> "logo"
      [] t = "Brand"  -> "brand"
      [] t = "ICON"   -> "icon"
      [] OTHER        -> t

\* str.lower()
Lower(s) == [i \in 1..Len(s) |-> LowerTok(s[i])]

\* "term in s": term occurs in s as a contiguous piece
Contains(s, term) ==
    \E i \in 1..Len(s) :
        /\ i + Len(term) - 1 <= Len(s)
        /\ SubSeq(s, i, i + Len(term) - 1) = term

\* s.startswith(prefix)
StartsWith(s, prefix) ==
    /\ Len(s) >= Len(prefix)
    /\ SubSeq(s, 1, Len(prefix)) = prefix

\* s.endswith(suffix), suffix a single token
EndsWith(s, suffix) == Len(s) >= 1 /\ s[Len(s)] = suffix

\* index of the first token of s at or after position from that lies in set
\* toks; Len(s) + 1 when there is none
RECURSIVE FirstOf(_, _, _)
FirstOf(s, toks, from) ==
    IF from > Len(s) THEN Len(s) + 1
    ELSE IF s[from] \in toks THEN from
    ELSE FirstOf(s, toks, from + 1)

\* s.split(sep): the sequence of pieces between occurrences of token sep
RECURSIVE Split(_, _)
Split(s, sep) ==
    LET k == FirstOf(s, {sep}, 1)
    IN  IF k > Len(s) THEN <<s>>
        ELSE <<SubSeq(s, 1, k - 1)>> \o Split(SubSeq(s, k + 1, Len(s)), sep)

Schemes == {"http://", "https://"}

\* url.startswith(('http://', 'https://'))
HasScheme(url) == Len(url) >= 1 /\ url[1] \in Schemes

\* urlparse(url).netloc for a url that carries a scheme: what follows "//" up
\* to the first "/", "?" or "#"
Netloc(url) == SubSeq(url, 2, FirstOf(url, {"/", "?", "#"}, 2) - 1)

\* urlparse raises ValueError("Invalid IPv6 URL") on unbalanced brackets
UrlparseRaises(url) ==
    Contains(Netloc(url), <<"[">>) # Contains(Netloc(url), <<"]">>)

\* urlparse(url).path: from the first "/" after the netloc up to "?" or "#"
UrlPath(url) ==
    LET a == FirstOf(url, {"/", "?", "#"}, 2)
    IN  IF a > Len(url) \/ url[a] # "/" THEN <<>>
        ELSE SubSeq(url, a, FirstOf(url, {"?", "#"}, a) - 1)

-----------------------------------------------------------------------------
(* get_domain                                                                *)

Normalize(url) == IF HasScheme(url) THEN url ELSE <<"https://">> \o url

\* urlparse raising inside get_domain
get_domain_raises(url) == UrlparseRaises(Normalize(url))

\* the netloc of the scheme-qualified url
get_domain(url) == Netloc(Normalize(url))

-----------------------------------------------------------------------------
(* is_likely_logo                                                            *)

DefaultMinSize == 16
DefaultMaxSize == 500
MaxAspectRatio == 4
FaviconSmall == 16
FaviconLarge == 32

Max(a, b) == IF a >= b THEN a ELSE b
Min(a, b) == IF a <= b THEN a ELSE b

\* the aspect check with "at least 4" in place of "above 4"
AspectTooLarge_AtLeast(width, height) ==
    Max(width, height) >= MaxAspectRatio * Min(width, height)

\* max(width, height) / min(width, height) > 4, for positive integers
AspectTooLarge(width, height) ==
    Max(width, height) > MaxAspectRatio * Min(width, height)

IsFaviconSize(width, height) ==
    \/ width = FaviconSmall /\ height = FaviconSmall
    \/ width = FaviconLarge /\ height = FaviconLarge

\* image_content is the outcome of Image.open on the bytes: whether they
\* decode, and the decoded size
is_likely_logo(image_content, minSize, maxSize) ==
    IF ~image_content.decodes THEN FALSE
    ELSE LET width  == image_content.width
             height == image_content.height
         IN  IF width < minSize \/ height < minSize THEN FALSE
             ELSE IF width > maxSize \/ height > maxSize THEN FALSE
             ELSE IF IsFaviconSize(width, height) THEN TRUE
             ELSE IF AspectTooLarge(width, height) THEN FALSE
             ELSE TRUE

-----------------------------------------------------------------------------
(* find_logo_urls                                                            *)

HttpOk == 200

ImgTerms  == {<<"logo">>, <<"brand">>, <<"header-image">>}
IconTerms == {<<"icon">>, <<"shortcut", " ", "icon">>, <<"apple-touch-", "icon">>}
SvgTerms  == {<<"logo">>, <<"brand">>}

DataSvgPrefix == <<"data:image/svg+xml;", "base64,">>

\* urljoin(base, ref), base a scheme-qualified url
urljoin(base, ref) ==
    IF ref = <<>> THEN base
    ELSE IF HasScheme(ref) \/ ref[1] = "data:image/svg+xml;" THEN ref
    ELSE IF ref[1] = "//" THEN <<base[1]>> \o Tail(ref)
    ELSE IF ref[1] = "/" THEN <<base[1]>> \o Netloc(base) \o ref
    ELSE <<base[1]>> \o Netloc(base) \o <<"/">> \o ref

\* Method 1: any term in any of src.lower(), alt, class, id (all lower-cased)
ImgMatches(el) ==
    \E term \in ImgTerms :
        \E attr \in {Lower(el.src), Lower(el.alt), Lower(el.class), Lower(el.id)} :
            Contains(attr, term)

\* Method 2: any icon term in the lower-cased rel
LinkMatches(el) ==
    \E term \in IconTerms : Contains(Lower(el.rel), term)

\* Method 3: any term in the lower-cased class or id
SvgMatches(el) ==
    \E term \in SvgTerms :
        \E attr \in {Lower(el.class), Lower(el.id)} : Contains(attr, term)

\* for img in soup.find_all('img'): ... logo_urls.append(urljoin(url, img_src))
\* Every appended url is paired with the document position it came from.
RECURSIVE ImgLoop(_, _, _, _)
ImgLoop(url, doc, i, acc) ==
    IF i > Len(doc) THEN acc
    ELSE ImgLoop(url, doc, i + 1,
            IF doc[i].tag = "img" /\ ImgMatches(doc[i])
            THEN Append(acc, [url |-> urljoin(url, doc[i].src), pos |-> i])
            ELSE acc)

\* for link in soup.find_all('link'): ... if href: logo_urls.append(...)
RECURSIVE LinkLoop(_, _, _, _)
LinkLoop(url, doc, i, acc) ==
    IF i > Len(doc) THEN acc
    ELSE LinkLoop(url, doc, i + 1,
            IF doc[i].tag = "link" /\ LinkMatches(doc[i]) /\ doc[i].href # <<>>
            THEN Append(acc, [url |-> urljoin(url, doc[i].href), pos |-> i])
            ELSE acc)

\* for svg in soup.find_all('svg'): ... logo_urls.append(f"data:...{svg_str}")
RECURSIVE SvgLoop(_, _, _, _)
SvgLoop(url, doc, i, acc) ==
    IF i > Len(doc) THEN acc
    ELSE SvgLoop(url, doc, i + 1,
            IF doc[i].tag = "svg" /\ SvgMatches(doc[i])
            THEN Append(acc, [url |-> DataSvgPrefix \o doc[i].markup, pos |-> i])
            ELSE acc)

\* one pass over the document, emitting every match where it stands
RECURSIVE SinglePass(_, _, _, _)
SinglePass(url, doc, i, acc) ==
    IF i > Len(doc) THEN acc
    ELSE SinglePass(url, doc, i + 1,
            acc \o SvgLoop(url, SubSeq(doc, 1, i), i,
                      LinkLoop(url, SubSeq(doc, 1, i), i,
                        ImgLoop(url, SubSeq(doc, 1, i), i, <<>>))))

ScanDocument_DocumentOrder(url, doc) == SinglePass(url, doc, 1, <<>>)

\* the three loops, run one after the other on the same list
ScanDocument(url, doc) ==
    SvgLoop(url, doc, 1, LinkLoop(url, doc, 1, ImgLoop(url, doc, 1, <<>>)))

\* resp is what requests.get and the parse produce: an exception anywhere in
\* the try block, or a status code and the parsed document
TracedLogoUrls(url, resp) ==
    IF resp.outcome = "raise" THEN <<>>
    ELSE IF resp.status # HttpOk THEN <<>>
    ELSE ScanDocument(Normalize(url), resp.doc)

find_logo_urls(url, resp) ==
    LET traced == TracedLogoUrls(url, resp)
    IN  [i \in 1..Len(traced) |-> traced[i].url]

-----------------------------------------------------------------------------
(* download_logo                                                             *)

OutputFolder == "logo"

\* os.path.join(output_folder, f"{domain} - logo{ext}")
FilePath(output_folder, dom, ext) ==
    [dir |-> output_folder, name |-> dom \o <<" - logo", ext>>]

\* what open(file_path, 'w') then f.write(text) leaves in the file
TextFile(text) ==
    [mode |-> "w", text |-> text,
     bytes |-> [decodes |-> FALSE, width |-> 0, height |-> 0]]

\* what open(file_path, 'wb') then f.write(response.content) leaves in the file
BinaryFile(bytes) == [mode |-> "wb", text |-> <<>>, bytes |-> bytes]

\* open(file_path, ...) and write: the file is created or overwritten
WriteFile(files, path, content) ==
    {f \in files : f.path # path} \cup {[path |-> path, content |-> content]}

\* the extension from the lower-cased content-type header
ContentTypeExt(content_type) ==
    IF Contains(content_type, <<"png">>) THEN ".png"
    ELSE IF Contains(content_type, <<"jpg">>) \/ Contains(content_type, <<"jpeg">>) THEN ".jpg"
    ELSE IF Contains(content_type, <<"svg">>) THEN ".svg"
    ELSE IF Contains(content_type, <<"ico">>) THEN ".ico"
    ELSE None

\* the extension from the lower-cased url path, ".png" when it has none
UrlPathExt(url_path) ==
    IF EndsWith(url_path, ".png") THEN ".png"
    ELSE IF EndsWith(url_path, ".jpg") \/ EndsWith(url_path, ".jpeg") THEN ".jpg"
    ELSE IF EndsWith(url_path, ".svg") THEN ".svg"
    ELSE IF EndsWith(url_path, ".ico") THEN ".ico"
    ELSE ".png"

\* the url suffix consulted before the content type
DetermineExt_UrlFirst(url, content_type) ==
    IF \E e \in {".png", ".jpg", ".jpeg", ".svg", ".ico"} :
           EndsWith(Lower(UrlPath(url)), e)
    THEN UrlPathExt(Lower(UrlPath(url)))
    ELSE IF ContentTypeExt(Lower(content_type)) # None
    THEN ContentTypeExt(Lower(content_type))
    ELSE ".png"

DetermineExt(url, content_type) ==
    IF ContentTypeExt(Lower(content_type)) # None
    THEN ContentTypeExt(Lower(content_type))
    ELSE UrlPathExt(Lower(UrlPath(url)))

\* url.split('base64,')[1]
SvgContent(url) == Split(url, "base64,")[2]

\* download_logo saving the response bytes before it validates them
download_logo_WriteFirst(url, dom, output_folder, resp, files) ==
    IF StartsWith(url, DataSvgPrefix)
    THEN [ret      |-> FilePath(output_folder, dom, ".svg"),
          files    |-> WriteFile(files, FilePath(output_folder, dom, ".svg"),
                                 TextFile(SvgContent(url))),
          written  |-> <<FilePath(output_folder, dom, ".svg")>>,
          requests |-> 0, validations |-> 0]
    ELSE IF resp.outcome = "raise" \/ resp.status # HttpOk
    THEN [ret |-> NoFile, files |-> files, written |-> <<>>,
          requests |-> 1, validations |-> 0]
    ELSE LET ext  == DetermineExt(url, resp.content_type)
             path == FilePath(output_folder, dom, ext)
         IN  [ret      |-> IF is_likely_logo(resp.content, DefaultMinSize,
                                             DefaultMaxSize)
                           THEN path ELSE NoFile,
              files    |-> WriteFile(files, path, BinaryFile(resp.content)),
              written  |-> <<path>>,
              requests |-> 1, validations |-> 1]

\* download_logo not looking at the status code of the response
download_logo_IgnoresStatus(url, dom, output_folder, resp, files) ==
    IF StartsWith(url, DataSvgPrefix)
    THEN [ret      |-> FilePath(output_folder, dom, ".svg"),
          files    |-> WriteFile(files, FilePath(output_folder, dom, ".svg"),
                                 TextFile(SvgContent(url))),
          written  |-> <<FilePath(output_folder, dom, ".svg")>>,
          requests |-> 0, validations |-> 0]
    ELSE IF resp.outcome = "raise"
    THEN [ret |-> NoFile, files |-> files, written |-> <<>>,
          requests |-> 1, validations |-> 0]
    ELSE IF ~is_likely_logo(resp.content, DefaultMinSize, DefaultMaxSize)
    THEN [ret |-> NoFile, files |-> files, written |-> <<>>,
          requests |-> 1, validations |-> 1]
    ELSE LET ext  == DetermineExt(url, resp.content_type)
             path == FilePath(output_folder, dom, ext)
         IN  [ret      |-> path,
              files    |-> WriteFile(files, path, BinaryFile(resp.content)),
              written  |-> <<path>>,
              requests |-> 1, validations |-> 1]

\* The result of one call: the returned path (None for no result), the files
\* afterwards, the paths it wrote to, and how many HTTP requests and validator
\* calls were made.
download_logo(url, dom, output_folder, resp, files) ==
    IF StartsWith(url, DataSvgPrefix)
    THEN [ret      |-> FilePath(output_folder, dom, ".svg"),
          files    |-> WriteFile(files, FilePath(output_folder, dom, ".svg"),
                                 TextFile(SvgContent(url))),
          written  |-> <<FilePath(output_folder, dom, ".svg")>>,
          requests |-> 0, validations |-> 0]
    ELSE IF resp.outcome = "raise"
    THEN [ret |-> NoFile, files |-> files, written |-> <<>>,
          requests |-> 1, validations |-> 0]
    ELSE IF resp.status # HttpOk
    THEN [ret |-> NoFile, files |-> files, written |-> <<>>,
          requests |-> 1, validations |-> 0]
    ELSE IF ~is_likely_logo(resp.content, DefaultMinSize, DefaultMaxSize)
    THEN [ret |-> NoFile, files |-> files, written |-> <<>>,
          requests |-> 1, validations |-> 1]
    ELSE LET ext  == DetermineExt(url, resp.content_type)
             path == FilePath(output_folder, dom, ext)
         IN  [ret      |-> path,
              files    |-> WriteFile(files, path, BinaryFile(resp.content)),
              written  |-> <<path>>,
              requests |-> 1, validations |-> 1]

-----------------------------------------------------------------------------
(* process_website                                                           *)

\* the loop running on after a successful download
LoopBreaks_Never(file_path) == FALSE

\* if file_path: ... success = True; break
LoopBreaks(file_path) == file_path # NoFile

\* for url in logo_urls: file_path = download_logo(url, domain, output_folder)
\* image_resps[i] is what the network answers if candidate i is requested.
\* trace records every call made, in the order made.
RECURSIVE DownloadLoop(_, _, _, _, _, _, _)
DownloadLoop(logo_urls, i, dom, output_folder, image_resps, files, trace) ==
    IF i > Len(logo_urls) THEN [files |-> files, trace |-> trace]
    ELSE LET r == download_logo(logo_urls[i], dom, output_folder,
                                image_resps[i], files)
             t == Append(trace, [i |-> i, url |-> logo_urls[i], ret |-> r.ret,
                                 written |-> r.written])
         IN  IF LoopBreaks(r.ret)
             THEN [files |-> r.files, trace |-> t]
             ELSE DownloadLoop(logo_urls, i + 1, dom, output_folder,
                               image_resps, r.files, t)

\* env.page is the answer to the page fetch, env.images the answers to the
\* candidate fetches.  raised: get_domain's exception leaves the function.
process_website(website, output_folder, env, files) ==
    IF get_domain_raises(website)
    THEN [raised |-> TRUE, logo_urls |-> <<>>, trace |-> <<>>, files |-> files]
    ELSE LET dom       == get_domain(website)
             logo_urls == find_logo_urls(website, env.page)
         IN  IF logo_urls = <<>>
             THEN [raised |-> FALSE, logo_urls |-> logo_urls, trace |-> <<>>,
                   files |-> files]
             ELSE LET l == DownloadLoop(logo_urls, 1, dom, output_folder,
                                        env.images, files, <<>>)
                  IN  [raised |-> FALSE, logo_urls |-> logo_urls,
                       trace |-> l.trace, files |-> l.files]

-----------------------------------------------------------------------------
(* extract_logos_from_parquet: the column and the thread pool                *)

\* a missing value of the column
Null == <<None>>

\* Series.dropna()
RECURSIVE DropNa(_)
DropNa(cells) ==
    IF cells = <<>> THEN <<>>
    ELSE IF Head(cells) = Null THEN DropNa(Tail(cells))
    ELSE <<Head(cells)>> \o DropNa(Tail(cells))

\* Series.unique(): the distinct values in order of first appearance
RECURSIVE Unique(_)
Unique(cells) ==
    IF cells = <<>> THEN <<>>
    ELSE LET rest == Unique(SubSeq(cells, 1, Len(cells) - 1))
             last == cells[Len(cells)]
         IN  IF \E i \in 1..Len(rest) : rest[i] = last THEN rest
             ELSE Append(rest, last)

\* the pool starting a thread for every submission, full or not
CanSpawn_OneTooMany(threads, limit) == threads <= limit

\* ThreadPoolExecutor(max_workers=max_workers): a submission starts a new
\* thread only while fewer than max_workers exist
CanSpawn(threads, limit) == threads < limit

\* a worker thread lost to the exception its task raised
Release_DiesOnRaise(workers, t, raised) ==
    IF raised THEN workers
    ELSE [w \in DOMAIN workers |-> IF workers[w] = t THEN 0 ELSE workers[w]]

\* the thread that ran task t stores the task's result or exception in its
\* future and waits for the next task
Release(workers, t, raised) ==
    [w \in DOMAIN workers |-> IF workers[w] = t THEN 0 ELSE workers[w]]

-----------------------------------------------------------------------------
(* The parts of the state a specification does not use                       *)

ValidatorIdle ==
    /\ image = [decodes |-> FALSE, width |-> 0, height |-> 0]
    /\ min_size = DefaultMinSize /\ max_size = DefaultMaxSize
    /\ verdict = <<>>

ScanIdle == page = <<>> /\ scanned = <<>>

DownloadIdle ==
    /\ dl_url = <<>> /\ dl_domain = <<>> /\ dl_resp = <<>>
    /\ dl_ret = <<>>

SiteIdle == site = <<>> /\ site_env = <<>> /\ site_ret = <<>>

BatchIdle ==
    /\ websites = <<>> /\ max_workers = 0
    /\ mainpc = "idle" /\ queue = <<>> /\ num_threads = 0
    /\ worker = <<>> /\ pc = <<>> /\ exc = <<>> /\ runs = <<>>
    /\ writes = <<>> /\ collected = {}

-----------------------------------------------------------------------------
(* SpecValidator: is_likely_logo on every decoded size and size limits       *)

Dims == {1, 10, 15, 16, 17, 31, 32, 33, 64, 65, 100, 128, 129, 300, 400,
         401, 500, 501, 600}

Undecodable == [decodes |-> FALSE, width |-> 0, height |-> 0]

Images == {Undecodable} \cup [decodes : {TRUE}, width : Dims, height : Dims]

MinSizes == {DefaultMinSize, 17, 33}
MaxSizes == {DefaultMaxSize, 31, 15}

InitValidator ==
    /\ image \in Images
    /\ min_size \in MinSizes
    /\ max_size \in MaxSizes
    /\ verdict = <<>>
    /\ ScanIdle /\ DownloadIdle /\ SiteIdle /\ BatchIdle /\ disk = {}

Validate ==
    /\ verdict = <<>>
    /\ verdict' = <<is_likely_logo(image, min_size, max_size)>>
    /\ UNCHANGED <<image, min_size, max_size, scanVars, downloadVars, siteVars,
                   batchVars, disk>>

NextValidator == Validate

SpecValidator == InitValidator /\ [][NextValidator]_vars

IsImage(w, h) == image = [decodes |-> TRUE, width |-> w, height |-> h]

Defaults == min_size = DefaultMinSize /\ max_size = DefaultMaxSize

\* C7: is_likely_logo rejects an undecodable image; otherwise it rejects a
\* width or height below minSize, then a width or height above maxSize, then
\* accepts exactly 16x16 and 32x32, then rejects a ratio larger/smaller above
\* 4, and accepts everything else (a ratio of exactly 4 included).  With the
\* default limits: 10x10, 600x600 and 100x500 are rejected, 16x16, 32x32 and
\* 100x300 are accepted.
ValidatorOrder ==
    verdict # <<>> =>
        LET w == image.width
            h == image.height
            below   == w < min_size \/ h < min_size
            above   == w > max_size \/ h > max_size
            favicon == <<w, h>> \in {<<16, 16>>, <<32, 32>>}
            big     == IF w >= h THEN w ELSE h
            small   == IF w >= h THEN h ELSE w
        IN  /\ ~image.decodes => verdict[1] = FALSE
            /\ image.decodes /\ below => verdict[1] = FALSE
            /\ image.decodes /\ ~below /\ above => verdict[1] = FALSE
            /\ image.decodes /\ ~below /\ ~above /\ favicon => verdict[1] = TRUE
            /\ image.decodes /\ ~below /\ ~above /\ ~favicon /\ big > 4 * small
                    => verdict[1] = FALSE
            /\ image.decodes /\ ~below /\ ~above /\ ~favicon /\ big <= 4 * small
                    => verdict[1] = TRUE
            /\ Defaults /\ IsImage(10, 10) => verdict[1] = FALSE
            /\ Defaults /\ IsImage(16, 16) => verdict[1] = TRUE
            /\ Defaults /\ IsImage(32, 32) => verdict[1] = TRUE
            /\ Defaults /\ IsImage(600, 600) => verdict[1] = FALSE
            /\ Defaults /\ IsImage(100, 500) => verdict[1] = FALSE
            /\ Defaults /\ IsImage(100, 300) => verdict[1] = TRUE
            /\ Defaults /\ IsImage(100, 400) => verdict[1] = TRUE

\* a 100x400 image (ratio exactly 4) has been accepted under the default limits
ValidatorOrderWitness ==
    Defaults /\ IsImage(100, 400) /\ verdict = <<TRUE>>

-----------------------------------------------------------------------------
(* SpecScan: find_logo_urls on every short document                          *)

MaxDoc == 3

El(tag, src, alt, class, id, rel, href, markup) ==
    [tag |-> tag, src |-> src, alt |-> alt, class |-> class, id |-> id,
     rel |-> rel, href |-> href, markup |-> markup]

Elements == {
    \* <img src="/img/LOGO.PNG">
    El("img", <<"/", "img", "/", "LOGO", ".PNG">>, <<>>, <<>>, <<>>, <<>>, <<>>, <<>>),
    \* <img src="hero.jpg" alt="Brand">
    El("img", <<"hero", ".jpg">>, <<"Brand">>, <<>>, <<>>, <<>>, <<>>, <<>>),
    \* <img src="/photo.jpg">
    El("img", <<"/", "photo", ".jpg">>, <<>>, <<>>, <<>>, <<>>, <<>>, <<>>),
    \* <link rel="icon" href="/favicon.ico">
    El("link", <<>>, <<>>, <<>>, <<>>, <<"icon">>, <<"/", "favicon", ".ico">>, <<>>),
    \* <link rel="apple-touch-icon" href="https://cdn.net/touch.png">
    El("link", <<>>, <<>>, <<>>, <<>>, <<"apple-touch-", "icon">>,
       <<"https://", "cdn.net", "/", "touch", ".png">>, <<>>),
    \* <link rel="ICON">
    El("link", <<>>, <<>>, <<>>, <<>>, <<"ICON">>, <<>>, <<>>),
    \* <link rel="stylesheet" href="/site.css">
    El("link", <<>>, <<>>, <<>>, <<>>, <<"stylesheet">>, <<"/", "site", ".css">>, <<>>),
    \* <svg class="LOGO">...</svg>
    El("svg", <<>>, <<>>, <<"LOGO">>, <<>>, <<>>, <<>>, <<"<svg class=LOGO>", "</svg>">>),
    \* <svg id="brand"><image href="data:image/png;base64,iVBOR"/></svg>
    El("svg", <<>>, <<>>, <<>>, <<"brand">>, <<>>, <<>>,
       <<"<svg id=brand>", "<image href=data:image/png;", "base64,", "iVBOR", "/>", "</svg>">>),
    \* <svg class="header-image">...</svg>
    El("svg", <<>>, <<>>, <<"header-image">>, <<>>, <<>>, <<>>, <<"<svg class=header-image>", "</svg>">>),
    \* <div id="logo">
    El("div", <<>>, <<>>, <<>>, <<"logo">>, <<>>, <<>>, <<>>) }

SeqsUpTo(S, n) == UNION {[1..k -> S] : k \in 0..n}

Docs == SeqsUpTo(Elements, MaxDoc)

ScanUrls == {<<"a.com">>, <<"https://", "a.com", "/", "shop">>}

\* status codes other than 200 a server answers with
ErrorStatuses == {404, 500}

\* the page fetch and parse: an exception, or a status code with the document
PageResponses ==
    [outcome : {"raise", "ok"}, status : {HttpOk}, doc : Docs]
    \cup [outcome : {"ok"}, status : ErrorStatuses, doc : Docs]

InitScan ==
    /\ page \in [url : ScanUrls, resp : PageResponses]
    /\ scanned = <<>>
    /\ ValidatorIdle /\ DownloadIdle /\ SiteIdle /\ BatchIdle /\ disk = {}

\* scanned keeps the returned list and, beside it, where each entry came from
Scan ==
    /\ scanned = <<>>
    /\ scanned' = <<[urls   |-> find_logo_urls(page.url, page.resp),
                     origin |-> LET t == TracedLogoUrls(page.url, page.resp)
                                IN  [i \in 1..Len(t) |-> t[i].pos]]>>
    /\ UNCHANGED <<page, validatorVars, downloadVars, siteVars, batchVars, disk>>

NextScan == Scan

SpecScan == InitScan /\ [][NextScan]_vars

\* an element one of the three heuristics emits a candidate for
Emits(el) ==
    \/ el.tag = "img" /\ ImgMatches(el)
    \/ el.tag = "link" /\ LinkMatches(el) /\ el.href # <<>>
    \/ el.tag = "svg" /\ SvgMatches(el)

HeuristicOf(el) ==
    CASE el.tag = "img" -> 1 [] el.tag = "link" -> 2 [] OTHER -> 3

\* C8: the returned list holds one entry for every element a heuristic emits
\* (duplicates kept), image-tag entries first, then link entries, then inline
\* SVG entries, each group in document order; it is empty on a non-200
\* response or an exception.
ScanOrder ==
    scanned # <<>> =>
        LET doc == page.resp.doc
            out == scanned[1].urls
            org == scanned[1].origin
        IN  IF page.resp.outcome = "raise" \/ page.resp.status # 200
            THEN out = <<>>
            ELSE /\ Len(out) = Cardinality({p \in 1..Len(doc) : Emits(doc[p])})
                 /\ Len(org) = Len(out)
                 /\ \A i \in 1..Len(org) :
                        /\ org[i] \in 1..Len(doc)
                        /\ Emits(doc[org[i]])
                        /\ (doc[org[i]].tag = "svg") =
                               StartsWith(out[i], DataSvgPrefix)
                 /\ \A i, j \in 1..Len(org) :
                        i < j =>
                            \/ HeuristicOf(doc[org[i]]) < HeuristicOf(doc[org[j]])
                            \/ /\ HeuristicOf(doc[org[i]]) = HeuristicOf(doc[org[j]])
                               /\ org[i] < org[j]

\* a document with a matching svg, then a matching link, then a matching img
\* was scanned: the candidates come out img, link, svg
ScanOrderWitness ==
    /\ scanned # <<>>
    /\ page.resp.outcome = "ok" /\ page.resp.status = 200
    /\ Len(page.resp.doc) = 3
    /\ page.resp.doc[1].tag = "svg" /\ page.resp.doc[2].tag = "link"
    /\ page.resp.doc[3].tag = "img"
    /\ scanned[1].origin = <<3, 2, 1>>

-----------------------------------------------------------------------------
(* SpecDownload: one call of download_logo                                   *)

PathSuffixes == {<<>>, <<".png">>, <<".PNG">>, <<".jpg">>, <<".JPEG">>,
                 <<".svg">>, <<".ico">>, <<".gif">>}

Queries == {<<>>, <<"?", "v=1", ".svg">>}

\* plain candidates: https://cdn.net/logo<suffix><query>
PlainUrls ==
    {<<"https://", "cdn.net", "/", "logo">> \o sfx \o q :
        sfx \in PathSuffixes, q \in Queries}

\* inline-SVG candidates as find_logo_urls builds them
InlineSvgUrls ==
    {DataSvgPrefix \o el.markup : el \in {e \in Elements : e.tag = "svg"}}

DlUrls == PlainUrls \cup InlineSvgUrls

DlDomains == {<<"a.com">>, <<"b.com", ":", "8080">>}

ContentTypes == {
    <<>>,                                       \* no content-type header
    <<"image/", "png">>,
    <<"IMAGE/", "PNG">>,
    <<"image/", "jpeg">>,
    <<"image/", "jpg">>,
    <<"image/", "svg", "+xml">>,
    <<"image/x-", "ico", "n">>,
    <<"image/vnd.microsoft.", "ico", "n">>,
    <<"image/", "webp">>,
    <<"application/octet-stream">> }

\* response bodies: a plausible logo, a ratio-4 banner, a too-wide banner, a
\* tracking pixel, a favicon, a photo, bytes that are no image
Bodies == {[decodes |-> TRUE, width |-> 120, height |-> 60],
           [decodes |-> TRUE, width |-> 400, height |-> 100],
           [decodes |-> TRUE, width |-> 401, height |-> 100],
           [decodes |-> TRUE, width |-> 1, height |-> 1],
           [decodes |-> TRUE, width |-> 16, height |-> 16],
           [decodes |-> TRUE, width |-> 800, height |-> 600],
           Undecodable}

\* what requests.get produces for a candidate: an exception, or a response
ImageResponses ==
    [outcome : {"raise"}, status : {0}, content : {Undecodable},
     content_type : {<<>>}]
    \cup [outcome : {"ok"}, status : {HttpOk} \cup ErrorStatuses,
          content : Bodies, content_type : ContentTypes]

\* the output folder before the call: empty, or holding an earlier download
OldFile(dom, ext) ==
    [path |-> FilePath(OutputFolder, dom, ext), content |-> TextFile(<<"old">>)]

InitDownload ==
    /\ dl_url \in DlUrls
    /\ dl_domain \in DlDomains
    /\ dl_resp \in ImageResponses
    /\ disk \in {{}, {OldFile(dl_domain, ".png")}, {OldFile(dl_domain, ".svg")}}
    /\ dl_ret = <<>>
    /\ ValidatorIdle /\ ScanIdle /\ SiteIdle /\ BatchIdle

Download ==
    /\ dl_ret = <<>>
    /\ LET r == download_logo(dl_url, dl_domain, OutputFolder, dl_resp, disk)
       IN  /\ dl_ret' = <<[ret |-> r.ret, requests |-> r.requests,
                          validations |-> r.validations]>>
           /\ disk' = r.files
    /\ UNCHANGED <<dl_url, dl_domain, dl_resp, validatorVars, scanVars, siteVars,
                   batchVars>>

NextDownload == Download

SpecDownload == InitDownload /\ [][NextDownload]_vars

IsInline(url) == StartsWith(url, DataSvgPrefix)

\* the response is a 200 whose bytes the validator accepts
GoodResponse(resp) ==
    /\ resp.outcome = "ok"
    /\ resp.status = 200
    /\ is_likely_logo(resp.content, 16, 500)

\* C5: for a URL-based candidate, a call that got a non-200 status or bytes
\* the validator rejects returns no result and leaves the output folder as it
\* was; the folder changes, and a path is returned, only after a 200 response
\* whose bytes passed validation.
NoWriteOnFailure ==
    [][ (dl_ret = <<>> /\ dl_ret' # <<>> /\ ~IsInline(dl_url)) =>
            /\ ~GoodResponse(dl_resp) => (dl_ret'[1].ret = NoFile /\ disk' = disk)
            /\ (disk' # disk \/ dl_ret'[1].ret # NoFile) => GoodResponse(dl_resp)
      ]_vars

\* a URL-based candidate got a 200 whose bytes failed validation, with an
\* earlier file in the folder, and the call has returned
NoWriteOnFailureWitness ==
    /\ dl_ret # <<>> /\ ~IsInline(dl_url)
    /\ dl_resp.outcome = "ok" /\ dl_resp.status = 200
    /\ ~is_likely_logo(dl_resp.content, 16, 500)
    /\ dl_ret[1].ret = NoFile
    /\ disk # {}

FileExt(path) == path.name[Len(path.name)]

\* what the claim's table gives for a lower-cased content type, None when it
\* names none of the four kinds
TableExt(ct) ==
    IF Contains(ct, <<"png">>) THEN ".png"
    ELSE IF Contains(ct, <<"jpg">>) \/ Contains(ct, <<"jpeg">>) THEN ".jpg"
    ELSE IF Contains(ct, <<"svg">>) THEN ".svg"
    ELSE IF Contains(ct, <<"ico">>) THEN ".ico"
    ELSE None

\* the last token of the url's path, lower-cased; None for an empty path
LastOfPath(url) ==
    LET path == UrlPath(url)
    IN  IF path = <<>> THEN None ELSE LowerTok(path[Len(path)])

\* C10: a validated URL-based download is written with an extension among
\* .png, .jpg, .svg, .ico: the one its content type names when it names one
\* (whatever the url ends with), else the one the url path ends with, else
\* .png.
ExtensionPriority ==
    (dl_ret # <<>> /\ ~IsInline(dl_url) /\ dl_ret[1].ret # NoFile) =>
        LET ext == FileExt(dl_ret[1].ret)
            ct  == Lower(dl_resp.content_type)
            sfx == LastOfPath(dl_url)
        IN  /\ ext \in {".png", ".jpg", ".svg", ".ico"}
            /\ TableExt(ct) # None => ext = TableExt(ct)
            /\ TableExt(ct) = None /\ sfx = ".png" => ext = ".png"
            /\ TableExt(ct) = None /\ sfx \in {".jpg", ".jpeg"} => ext = ".jpg"
            /\ TableExt(ct) = None /\ sfx = ".svg" => ext = ".svg"
            /\ TableExt(ct) = None /\ sfx = ".ico" => ext = ".ico"
            /\ TableExt(ct) = None
                 /\ sfx \notin {".png", ".jpg", ".jpeg", ".svg", ".ico"}
                    => ext = ".png"
            /\ \E f \in disk : f.path = dl_ret[1].ret /\ f.content = [mode |-> "wb", text |-> <<>>, bytes |-> dl_resp.content]

\* a validated image served as image/png from a url ending in .svg was
\* written as .png
ExtensionPriorityWitness ==
    /\ dl_ret # <<>> /\ ~IsInline(dl_url) /\ dl_ret[1].ret # NoFile
    /\ dl_resp.content_type = <<"image/", "png">>
    /\ LastOfPath(dl_url) = ".svg"
    /\ FileExt(dl_ret[1].ret) = ".png"

\* C9 (download_logo's part): for an inline-SVG candidate the call makes no
\* HTTP request and no validator call, returns "<domain> - logo.svg" under
\* the output folder, and that file holds the candidate's full SVG markup.
InlineSvgWrittenInFull ==
    (dl_ret # <<>> /\ IsInline(dl_url)) =>
        /\ dl_ret[1].requests = 0
        /\ dl_ret[1].validations = 0
        /\ dl_ret[1].ret = [dir |-> OutputFolder,
                            name |-> dl_domain \o <<" - logo", ".svg">>]
        /\ \E f \in disk :
              /\ f.path = dl_ret[1].ret
              /\ f.content.text =
                     SubSeq(dl_url, Len(DataSvgPrefix) + 1, Len(dl_url))

-----------------------------------------------------------------------------
(* SpecSite: one call of process_website                                     *)

MaxCands == 3

\* a bare host, the same host with its scheme, and a string urlparse rejects
SiteValues == {<<"a.com">>, <<"https://", "a.com">>, <<"[", "c.com">>}

\* elements of the pages served to process_website: a matching img, a
\* matching link, a matching svg and a div
SiteElements ==
    {e \in Elements :
        \/ e.tag = "img" /\ e.alt = <<"Brand">>
        \/ e.tag = "link" /\ e.rel = <<"icon">>
        \/ e.tag = "svg" /\ e.class = <<"LOGO">>
        \/ e.tag = "div"}

SitePages ==
    [outcome : {"ok"}, status : {HttpOk}, doc : SeqsUpTo(SiteElements, MaxCands)]
    \cup [outcome : {"ok"}, status : ErrorStatuses, doc : {<<>>}]
    \cup [outcome : {"raise"}, status : {0}, doc : {<<>>}]

\* answers to a candidate fetch: an exception, a 404, a 200 with a tracking
\* pixel, a 200 with a plausible logo
SiteImageResponses ==
    {r \in ImageResponses :
        \/ r.outcome = "raise"
        \/ /\ r.status \in {HttpOk, 404}
           /\ r.content_type = <<"image/", "png">>
           /\ r.content \in {[decodes |-> TRUE, width |-> 120, height |-> 60],
                             [decodes |-> TRUE, width |-> 1, height |-> 1]}
           /\ r.status = 404 => r.content.width = 1}

\* a page and an answer for each element it holds (a page yields at most
\* as many candidates as it holds elements)
EnvsOf(pages, answers) ==
    UNION {[page : {pg}, images : [1..Len(pg.doc) -> answers]] : pg \in pages}

SiteEnvs == EnvsOf(SitePages, SiteImageResponses)

InitSite ==
    /\ site \in SiteValues
    /\ site_env \in SiteEnvs
    /\ site_ret = <<>>
    /\ disk = {}
    /\ ValidatorIdle /\ ScanIdle /\ DownloadIdle /\ BatchIdle

ProcessWebsite ==
    /\ site_ret = <<>>
    /\ LET r == process_website(site, OutputFolder, site_env, disk)
       IN  /\ site_ret' = <<[raised |-> r.raised, logo_urls |-> r.logo_urls,
                            trace |-> r.trace]>>
           /\ disk' = r.files
    /\ UNCHANGED <<site, site_env, validatorVars, scanVars, downloadVars, batchVars>>

NextSite == ProcessWebsite

SpecSite == InitSite /\ [][NextSite]_vars

\* candidate k of the scanned list would download successfully: it is an
\* inline SVG, or its fetch answers 200 with bytes the validator accepts
Succeeds(k) ==
    \/ IsInline(site_ret[1].logo_urls[k])
    \/ GoodResponse(site_env.images[k])

FirstSuccess ==
    LET n == Len(site_ret[1].logo_urls)
    IN  IF \E k \in 1..n : Succeeds(k)
        THEN CHOOSE k \in 1..n : Succeeds(k) /\ \A j \in 1..(k - 1) : ~Succeeds(j)
        ELSE n

\* C1: the download calls of one site are made for candidates 1, 2, 3, ... in
\* the scanner's order, none follows a successful one, and their number is
\* the index of the first candidate that succeeds, or the number of
\* candidates when none does.
SequentialUntilSuccess ==
    (site_ret # <<>> /\ ~site_ret[1].raised) =>
        LET cands == site_ret[1].logo_urls
            tr    == site_ret[1].trace
        IN  /\ \A i \in 1..Len(tr) : tr[i].i = i /\ tr[i].url = cands[i]
            /\ \A i \in 1..(Len(tr) - 1) : tr[i].ret = NoFile
            /\ Len(tr) = FirstSuccess

\* three candidates, the first fetched and rejected, the second downloaded:
\* the third was never requested
SequentialUntilSuccessWitness ==
    /\ site_ret # <<>>
    /\ Len(site_ret[1].logo_urls) = 3
    /\ site_env.images[1].outcome = "ok" /\ site_env.images[1].status = 200
    /\ ~Succeeds(1) /\ Succeeds(2)
    /\ Len(site_ret[1].trace) = 2
    /\ site_ret[1].trace[2].ret # NoFile

-----------------------------------------------------------------------------
(* Spec: extract_logos_from_parquet                                          *)

MaxRows == 3
MaxPool == 2
MaxBatchCands == 2

\* the parquet file: unreadable, lacking the column, or the column's cells
Sources ==
    [status : {"ok"}, cells : SeqsUpTo(SiteValues \cup {Null}, MaxRows)]
    \cup [status : {"unreadable", "no_column"}, cells : {<<>>}]

\* what the network answers one site of the batch: an error page, or a page
\* of at most MaxBatchCands matching imgs and svgs, and for each candidate a
\* 200 with a tracking pixel or a 200 with a plausible logo
BatchEnvs ==
    EnvsOf({pg \in SitePages :
               /\ pg.outcome = "ok" /\ pg.status \in {HttpOk, 404}
               /\ Len(pg.doc) <= MaxBatchCands
               /\ \A i \in 1..Len(pg.doc) : pg.doc[i].tag \in {"img", "svg"}},
           {r \in SiteImageResponses : r.status = HttpOk})

Tasks == 1..Len(websites)

Init ==
    /\ max_workers \in 1..MaxPool
    /\ mainpc = "load"
    /\ websites = <<>> /\ queue = <<>> /\ num_threads = 0 /\ worker = <<>>
    /\ pc = <<>> /\ exc = <<>> /\ runs = <<>> /\ writes = <<>>
    /\ collected = {}
    /\ disk = {}
    /\ ValidatorIdle /\ ScanIdle /\ DownloadIdle /\ SiteIdle

others == <<validatorVars, scanVars, downloadVars, siteVars>>

\* lines 190-205: read the file, check the column, list the sites
Load ==
    /\ mainpc = "load"
    /\ \E column \in Sources :
          IF column.status # "ok"
          THEN /\ mainpc' = "failed"
               /\ UNCHANGED <<websites, pc, exc, runs, writes>>
          ELSE LET sites == Unique(DropNa(column.cells))
               IN  /\ websites' = sites
                   /\ pc' = [t \in 1..Len(sites) |-> "new"]
                   /\ exc' = [t \in 1..Len(sites) |-> FALSE]
                   /\ runs' = [t \in 1..Len(sites) |-> 0]
                   /\ writes' = [t \in 1..Len(sites) |-> <<>>]
                   /\ mainpc' = IF sites = <<>> THEN "collect" ELSE "submit"
    /\ UNCHANGED <<max_workers, queue, num_threads, worker, collected,
                   disk, others>>

\* line 209: executor.submit(process_website, website, output_folder) for the
\* next site of the list
Submit(t) ==
    /\ mainpc = "submit"
    /\ pc[t] = "new"
    /\ \A u \in 1..(t - 1) : pc[u] # "new"
    /\ pc' = [pc EXCEPT ![t] = "pending"]
    /\ queue' = Append(queue, t)
    /\ IF (\A w \in 1..num_threads : worker[w] # 0)
          /\ CanSpawn(num_threads, max_workers)
       THEN num_threads' = num_threads + 1 /\ worker' = Append(worker, 0)
       ELSE UNCHANGED <<num_threads, worker>>
    /\ mainpc' = IF t = Len(websites) THEN "collect" ELSE "submit"
    /\ UNCHANGED <<websites, max_workers, exc, runs, writes, collected,
                   disk, others>>

\* an idle pool thread takes the oldest queued task
Take(w) ==
    /\ w \in 1..num_threads
    /\ worker[w] = 0
    /\ queue # <<>>
    /\ worker' = [worker EXCEPT ![w] = Head(queue)]
    /\ queue' = Tail(queue)
    /\ pc' = [pc EXCEPT ![Head(queue)] = "running"]
    /\ runs' = [runs EXCEPT ![Head(queue)] = @ + 1]
    /\ UNCHANGED <<websites, max_workers, mainpc, num_threads, exc,
                   writes, collected, disk, others>>

\* the paths written by the calls of a trace, in order
RECURSIVE WrittenBy(_)
WrittenBy(trace) ==
    IF trace = <<>> THEN <<>>
    ELSE trace[1].written \o WrittenBy(Tail(trace))

\* the thread runs process_website(website, output_folder) to its end
Run(t) ==
    /\ t \in Tasks
    /\ pc[t] = "running"
    /\ \E env \in BatchEnvs :
          LET r == process_website(websites[t], OutputFolder, env, disk)
          IN  /\ exc' = [exc EXCEPT ![t] = r.raised]
              /\ writes' = [writes EXCEPT ![t] = WrittenBy(r.trace)]
              /\ disk' = r.files
              /\ worker' = Release(worker, t, r.raised)
    /\ pc' = [pc EXCEPT ![t] = "finished"]
    /\ UNCHANGED <<websites, max_workers, mainpc, queue, num_threads,
                   runs, collected, others>>

\* lines 210-214: as_completed hands over a finished future; its exception,
\* if any, is caught and reported
Collect(t) ==
    /\ mainpc = "collect"
    /\ t \in Tasks
    /\ pc[t] = "finished"
    /\ t \notin collected
    /\ collected' = collected \cup {t}
    /\ UNCHANGED <<websites, max_workers, mainpc, queue, num_threads,
                   worker, pc, exc, runs, writes, disk, others>>

\* every future has been collected: the executor shuts down and the function
\* returns
Return ==
    /\ mainpc = "collect"
    /\ collected = Tasks
    /\ mainpc' = "done"
    /\ UNCHANGED <<websites, max_workers, queue, num_threads, worker,
                   pc, exc, runs, writes, collected, disk, others>>

Next ==
    \/ Load
    \/ \E t \in Tasks : Submit(t)
    \/ \E w \in 1..num_threads : Take(w)
    \/ \E t \in Tasks : Run(t)
    \/ \E t \in Tasks : Collect(t)
    \/ Return

Spec == Init /\ [][Next]_vars

\* every thread that can run does run: the main thread and the pool threads
\* are scheduled by the operating system, and every fetch ends by its reply
\* or its timeout
FairSpec == Spec /\ WF_vars(Next)

InFlight == {t \in Tasks : pc[t] = "running"}

\* C3: at every moment at most max_workers site processings are in flight.
BoundedInFlight == Cardinality(InFlight) <= max_workers

\* two sites in flight on a pool of two while a third waits in the queue
BoundedInFlightWitness ==
    /\ max_workers = 2
    /\ Cardinality(InFlight) = 2
    /\ queue # <<>>

\* the batch is over: the load failed, or every listed site was processed
\* once and the function returned
BatchOver ==
    \/ mainpc = "failed"
    \/ /\ mainpc = "done"
       /\ \A t \in Tasks : pc[t] = "finished" /\ runs[t] = 1

\* the site list holds no missing value and no string twice
Deduplicated ==
    /\ \A i, j \in Tasks : i # j => websites[i] # websites[j]
    /\ \A i \in Tasks : websites[i] # Null

\* C2: every site of the de-duplicated list is processed exactly once and the
\* batch runs to its end, whether or not some site's processing raised: no
\* site is ever started twice, and eventually every site has finished and
\* the function has returned.
EverySiteProcessedOnce ==
    /\ [](Deduplicated /\ \A t \in Tasks : runs[t] <= 1)
    /\ <>[]BatchOver

\* the batch returned after a site raised and a site listed after it wrote
\* its logo
EverySiteProcessedOnceWitness ==
    /\ mainpc = "done"
    /\ \E t, u \in Tasks : t < u /\ exc[t] /\ writes[u] # <<>>
    /\ \A t \in Tasks : runs[t] = 1

\* C4: no two site-processing tasks of a batch write to the same file path.
DisjointWriteTargets ==
    \A t, u \in Tasks :
        t # u => \A i \in 1..Len(writes[t]) : \A j \in 1..Len(writes[u]) :
                     writes[t][i] # writes[u][j]

=============================================================================
